---- MODULE Spec2Model ----
(***************************************************************************)
(* A model of k8s/cpu-throttling/script.py: the CPU throttling probe.      *)
(*                                                                         *)
(* The program lists the pods of a namespace, and for each pod, in order,  *)
(* reads the cgroup cpu.stat counters of one container through a remote    *)
(* shell command (once, or twice with a sleep in between), derives a       *)
(* throttling percentage and appends a per-pod result.  The first failing  *)
(* pod ends the run with an error report.                                  *)
(*                                                                         *)
(* Python's None is modelled as the empty sequence and a present value x   *)
(* as <<x>> wherever a variable may hold either.                           *)
(***************************************************************************)
EXTENDS Integers, Sequences, FiniteSets, TLC

\* ---------------------------------------------------------------- bounds
\* The largest number of pods the list call returns.
MaxPods == 2
\* The largest value of nr_periods and nr_throttled a cpu.stat file holds.
MaxCount == 2
\* The largest --wait-seconds value (the smallest is -1).
MaxWait == 1
\* The largest number of lines of a cpu.stat file whose lines are permuted.
MaxLines == 3

\* ------------------------------------------------------------ option type
None == << >>
Some(x) == << x >>
IsSome(o) == Len(o) = 1
Get(o) == o[1]

\* ----------------------------------------------------- container filesystem
\* The path the probe command tests (script.py line 126).
V2Path == "/sys/fs/cgroup/cpu.stat"
\* The cgroup v1 location of the same file.
V1Path == "/sys/fs/cgroup/cpu/cpu.stat"
\* The values --cgroup-path and --complete-cgroup-path take in this model:
\* the mount point of the combined cgroup v1 controller and its file.
BaseDir == "/sys/fs/cgroup/cpu,cpuacct"
BaseStat == "/sys/fs/cgroup/cpu,cpuacct/cpu.stat"
BaseCpuStat == "/sys/fs/cgroup/cpu,cpuacct/cpu/cpu.stat"
ExactFile == "/sys/fs/cgroup/cpu,cpuacct/cpu.stat"

\* Every cpu.stat location a container of the model may hold.
Paths == {V2Path, V1Path, BaseStat, BaseCpuStat}

\* --------------------------------------------------------------- raw text
\* A line of text: the part before the first separator, the separator
\* (" ", ":" or "" when the line holds neither) and the part after it,
\* stripped.  The part after is num = Some(n) when int() reads it as n, and
\* otherwise num = None with the text itself in txt.
NumLine(k, s, n) == [key |-> k, sep |-> s, num |-> Some(n), txt |-> ""]
TxtLine(k, s, t) == [key |-> k, sep |-> s, num |-> None, txt |-> t]

\* echo "Found: /sys/fs/cgroup/cpu.stat" (line 127)
FoundLine(path) == TxtLine("Found:", " ", path)
\* echo "No cpu.stat found" (line 130)
NoStatLine == TxtLine("No", " ", "cpu.stat found")
\* What a container without /bin/sh answers on stderr.
GarbageLine == TxtLine("exec", " ", "failed: no such file or directory")

\* A well-formed cgroup v2 cpu.stat file, with a millisecond of throttled
\* time for each throttled period.
StatText(p, t) ==
    << NumLine("usage_usec", " ", 7),
       NumLine("nr_periods", " ", p),
       NumLine("nr_throttled", " ", t),
       NumLine("throttled_usec", " ", t * 1000) >>

GoodTexts ==
    { StatText(p, t) : p \in 0..MaxCount, t \in 0..MaxCount }

\* Files that exist but do not parse: a non-integer value, no recognized key,
\* no line at all.
BadTexts ==
    { << TxtLine("nr_periods", " ", "abc"), NumLine("nr_throttled", " ", 1) >>,
      << NumLine("usage_usec", " ", 7) >>,
      << >> }

Texts == GoodTexts \cup BadTexts

\* ------------------------------------------------- remote command capability
\* The probe command of lines 125-131 run by the container's shell: the
\* sentinel and the file when /sys/fs/cgroup/cpu.stat exists, the
\* not-found message otherwise.
ShellProbe(exists, content) ==
    IF V2Path \in exists
    THEN << FoundLine(V2Path) >> \o content
    ELSE << NoStatLine >>

\* The listing command of line 144 run by the container's shell: every
\* cpu.stat under /sys/fs/cgroup/, where all the paths of the model lie.
ShellList(exists) == exists

\* A container as a remote call finds it: the calls raise (pod not running,
\* container not ready or not found, API error; lines 61-113), or return
\* nothing, or what a container without a shell answers, or the shell runs
\* in a container holding the files `exists`, the probed file reading
\* `content`.  ls_ok tells whether a listing call that follows succeeds.
Container(kind, exists, content, ls_ok) ==
    [kind |-> kind, exists |-> exists, content |-> content, ls_ok |-> ls_ok]

Containers ==
    { Container(k, {}, << >>, FALSE) : k \in {"raise", "empty", "garbage"} }
    \cup { Container("shell", E, c, FALSE) :
             E \in {{V2Path}, Paths}, c \in Texts }
    \cup { Container("shell", E, << >>, ok) :
             E \in SUBSET (Paths \ {V2Path}), ok \in BOOLEAN }

\* exec_in_container (lines 51-113) on the probe command: the text returned.
ExecOutput(resp) ==
    CASE resp.kind = "shell" -> ShellProbe(resp.exists, resp.content)
      [] resp.kind = "garbage" -> << GarbageLine >>
      [] OTHER -> << >>

\* ------------------------------------------------------------ get_cpu_stats
\* What a call returns or raises.  ls is "no" when no listing was asked for,
\* "listed" with the files listed in `files`, or "failed".
Ok(s) == [ok |-> TRUE, stats |-> s, err |-> "", ls |-> "no", files |-> {}]
Raise(e, ls, files) ==
    [ok |-> FALSE,
     stats |-> [nr_periods |-> 0, nr_throttled |-> 0, throttled_time |-> 0,
                cgroup_path_used |-> ""],
     err |-> e, ls |-> ls, files |-> files]

\* Lines 153-157: the path of the first line starting with "Found:".
RECURSIVE FindCgroupPath(_)
FindCgroupPath(output) ==
    IF output = << >> THEN None
    ELSE IF Head(output).key = "Found:" THEN Some(Head(output).txt)
    ELSE FindCgroupPath(Tail(output))

\* The pass ending at the first line whose key is not a counter's ("break"
\* for "continue").
RECURSIVE ParseLines_StopAtUnknown(_, _)
ParseLines_StopAtUnknown(output, acc) ==
    IF output = << >> \/ acc.bad THEN acc
    ELSE LET line == Head(output)
             key == line.key
             rest == Tail(output)
         IN  IF line.sep = "" THEN ParseLines_StopAtUnknown(rest, acc)
             ELSE IF key = "Found:" THEN ParseLines_StopAtUnknown(rest, acc)
             ELSE IF key \notin {"nr_periods", "nr_throttled", "throttled_usec"}
             THEN acc
             ELSE IF ~IsSome(line.num) THEN [acc EXCEPT !.bad = TRUE]
             ELSE LET field == IF key = "throttled_usec"
                               THEN "throttled_time" ELSE key
                  IN  ParseLines_StopAtUnknown(rest,
                        [acc EXCEPT !.stats[field] = Get(line.num),
                                    !.found = TRUE])

\* Lines 172-192: one pass over the lines, a later line of a key overwriting
\* an earlier one.  acc carries the stats dictionary, found_any_stat and the
\* ValueError raised by int().
RECURSIVE ParseLines(_, _)
ParseLines(output, acc) ==
    IF output = << >> \/ acc.bad THEN acc
    ELSE LET line == Head(output)
             key == line.key
             rest == Tail(output)
         IN  IF line.sep = "" THEN ParseLines(rest, acc)
             ELSE IF key \notin {"nr_periods", "nr_throttled", "throttled_usec"}
             THEN ParseLines(rest, acc)
             ELSE IF ~IsSome(line.num) THEN [acc EXCEPT !.bad = TRUE]
             ELSE LET field == IF key = "throttled_usec"
                               THEN "throttled_time" ELSE key
                  IN  ParseLines(rest,
                        [acc EXCEPT !.stats[field] = Get(line.num),
                                    !.found = TRUE])

\* get_cpu_stats without the check of lines 140-150: the not-found message
\* read as a file holding no counter, the zeros of line 163 returned.
GetCpuStats_NoNotFoundCheck(resp, base_path, complete_path) ==
    IF resp.kind = "raise" THEN Raise("ExecFailure", "no", {})
    ELSE IF ExecOutput(resp) = << >> THEN Raise("NoOutput", "no", {})
    ELSE Ok([nr_periods |-> 0, nr_throttled |-> 0, throttled_time |-> 0,
             cgroup_path_used |-> "unknown"])

\* Lines 123-209 on the container `resp`, whatever cgroup_base_path and
\* complete_cgroup_path are: the function never reads them.  On the
\* not-found message the diagnostic listing of lines 143-149, a second
\* remote call, is made and its failure swallowed.
GetCpuStats(resp, base_path, complete_path) ==
    LET output == ExecOutput(resp)
    IN  IF resp.kind = "raise" THEN Raise("ExecFailure", "no", {})
        ELSE IF output = << >> THEN Raise("NoOutput", "no", {})
        ELSE IF \E k \in 1..Len(output) : output[k] = NoStatLine
        THEN IF resp.ls_ok
             THEN Raise("NotFound", "listed", ShellList(resp.exists))
             ELSE Raise("NotFound", "failed", {})
        ELSE LET cgroup_path == FindCgroupPath(output)
             IN  IF ~IsSome(cgroup_path) \/ Get(cgroup_path) = ""
                 THEN Raise("NoCgroupPath", "no", {})
                 ELSE LET acc == ParseLines(output,
                                   [stats |-> [nr_periods |-> 0,
                                               nr_throttled |-> 0,
                                               throttled_time |-> 0,
                                               cgroup_path_used |-> Get(cgroup_path)],
                                    found |-> FALSE, bad |-> FALSE])
                      IN  IF acc.bad THEN Raise("InvalidValue", "no", {})
                          ELSE IF ~acc.found THEN Raise("NoStats", "no", {})
                          ELSE Ok(acc.stats)

\* Lines 211-216: a client is built for every call; building it may raise
\* (resp.kind = "noclient"), and then no remote call is made.
GetContainerCpuStats(resp, base_path, complete_path) ==
    IF resp.kind = "noclient" THEN Raise("ClientFailure", "no", {})
    ELSE GetCpuStats(resp, base_path, complete_path)

Responses == Containers \cup { Container("noclient", {}, << >>, FALSE) }

\* ------------------------------------------------------ throttling calculator
\* A float is modelled as the exact fraction n/d, d > 0.
Frac(n, d) == [n |-> n, d |-> d]
Zero == Frac(0, 1)

\* Python's a / b: ZeroDivisionError when b is 0.
Divide(a, b) ==
    IF b = 0 THEN [ok |-> FALSE, val |-> Zero]
    ELSE IF b < 0 THEN [ok |-> TRUE, val |-> Frac(-a, -b)]
    ELSE [ok |-> TRUE, val |-> Frac(a, b)]

\* The guard letting zero periods through to the division.
Percentage_ZeroGuard(throttled, periods) ==
    IF periods >= 0
    THEN LET q == Divide(throttled, periods)
         IN  [ok |-> q.ok, pct |-> Frac(q.val.n * 100, q.val.d)]
    ELSE [ok |-> TRUE, pct |-> Zero]

\* The percentage clamped to [0, 100].
Percentage_Clamped(throttled, periods) ==
    IF periods > 0
    THEN LET q == Divide(throttled, periods)
             n == q.val.n * 100
         IN  [ok |-> q.ok,
              pct |-> IF n > 100 * q.val.d THEN Frac(100, 1)
                      ELSE IF n < 0 THEN Zero
                      ELSE Frac(n, q.val.d)]
    ELSE [ok |-> TRUE, pct |-> Zero]

\* Lines 295-299 and 302-306: (throttled / periods) * 100 when periods > 0,
\* and 0 otherwise.
Percentage(throttled, periods) ==
    IF periods > 0
    THEN LET q == Divide(throttled, periods)
         IN  [ok |-> q.ok, pct |-> Frac(q.val.n * 100, q.val.d)]
    ELSE [ok |-> TRUE, pct |-> Zero]

\* "if wait_seconds is not None": a wait of zero seconds taken for a wait.
Truthy_NotNone(w) == IsSome(w)

\* if wait_seconds: (lines 283, 291, 318)
Truthy(w) == IsSome(w) /\ Get(w) # 0

\* Lines 291-322: the result of one pod from its two snapshots (the same
\* snapshot twice when there is no wait).  final_stats is a non-empty
\* dictionary, so "wait_seconds and final_stats" is "wait_seconds".
Compute(pod_name, w, initial, final) ==
    LET differential == Truthy(w)
        periods_delta == final.nr_periods - initial.nr_periods
        throttled_delta == final.nr_throttled - initial.nr_throttled
        p == IF differential
             THEN Percentage(throttled_delta, periods_delta)
             ELSE Percentage(initial.nr_throttled, initial.nr_periods)
        stats_to_use == IF differential THEN final ELSE initial
        pod_result == [pod_name |-> pod_name,
                       throttling_percentage |-> p.pct,
                       throttled_rate |-> p.pct,
                       nr_periods |-> stats_to_use.nr_periods,
                       nr_throttled |-> stats_to_use.nr_throttled,
                       cgroup_path |-> stats_to_use.cgroup_path_used]
    IN  [ok |-> p.ok,
         res |-> IF differential
                 THEN pod_result @@ [periods_delta |-> periods_delta,
                                     throttled_delta |-> throttled_delta]
                 ELSE pod_result]

\* ------------------------------------------------------------------- state
VARIABLES
    pc,                    \* where the run stands
    namespace,             \* the resolved --namespace / NAMESPACE
    container_name,        \* the resolved --container-name / CONTAINER_NAME
    label_selector,        \* the resolved --label-selector / LABEL_SELECTOR
    cgroup_base_path,      \* --cgroup-path
    complete_cgroup_path,  \* --complete-cgroup-path
    wait_seconds,          \* --wait-seconds
    failurePolicy,         \* the partial-failure policy of the run
    listed,                \* the list call returned
    pods,                  \* the pods the list call returned, in its order
    cur,                   \* the index in pods of the pod of the loop
    initial_stats,         \* the loop's initial_stats
    final_stats,           \* the loop's final_stats
    pod_results,           \* the loop's pod_results
    failures,              \* the exceptions the loop body raised, in order
    result,                \* the report get_throttling_percentage returned
    exit_code,             \* the status the process exited with
    log,                   \* the snapshots, listings and sleeps made so far
    raw_text,              \* a cpu.stat file whose parsing is under study
    permuted,              \* the same lines in another order
    parsed                 \* what get_cpu_stats makes of the two

vars == << pc, namespace, container_name, label_selector, cgroup_base_path,
           complete_cgroup_path, wait_seconds, failurePolicy, listed, pods,
           cur, initial_stats, final_stats, pod_results, failures, result,
           exit_code, log, raw_text, permuted, parsed >>

\* The parsing under study apart from a run: no step of a run touches it.
parser == << raw_text, permuted, parsed >>

config == << namespace, container_name, label_selector, cgroup_base_path,
             complete_cgroup_path, wait_seconds, failurePolicy >>

\* pod.metadata.name
PodNames == 1..MaxPods

\* What list_namespaced_pod may return: any pods, each once, in any order.
Listings ==
    UNION { { q \in [1..n -> PodNames] : \A a, b \in 1..n : a # b => q[a] # q[b] } :
            n \in 0..MaxPods }

\* The locations the path options name, in the order of their priority.
Candidates(base_path, complete_path) ==
    IF IsSome(complete_path) THEN << Get(complete_path) >>
    ELSE IF IsSome(base_path) THEN << BaseStat, BaseCpuStat >>
    ELSE << V2Path, V1Path >>

Range(q) == { q[k] : k \in 1..Len(q) }

\* The shell ran in the container and no cpu.stat is where the run looks
\* for one: not at the probed path and not at a location the options name.
Absent(resp) ==
    /\ resp.kind = "shell"
    /\ resp.exists \cap
         ({V2Path} \cup Range(Candidates(cgroup_base_path, complete_cgroup_path)))
       = {}

\* An entry of the log: a snapshot taken of a pod ("snapshot", absent
\* telling whether its container held no cpu.stat), a listing of its files
\* ("ls", with the files listed, or "ls-failed"), a sleep ("wait", with its
\* seconds).
Event(pod, ev, secs, files, absent) ==
    [pod |-> pod, ev |-> ev, secs |-> secs, files |-> files, absent |-> absent]

ErrorReport(text, pod, kind) ==
    [status |-> "error", error |-> text, pod |-> pod, kind |-> kind]
SuccessReport(message, results) ==
    [status |-> "success", message |-> message, pods |-> results]

\* Lines 399-428: main prints the report, as JSON or as the average, and
\* exits with status 1 when the report holds an error.
ExitStatus(report) == IF report.status = "error" THEN 1 ELSE 0

\* get_throttling_percentage returns `report` to main, which exits.
Return(report) ==
    /\ result' = Some(report)
    /\ exit_code' = Some(ExitStatus(report))
    /\ pc' = "exit"

InitConfig ==
    /\ namespace \in {None, Some("ns")}
    /\ container_name \in {None, Some("app")}
    /\ label_selector \in {None, Some("app=web")}
    /\ cgroup_base_path \in {None, Some(BaseDir)}
    /\ complete_cgroup_path \in {None, Some(ExactFile)}
    \* argparse: the two path options are mutually exclusive (line 365)
    /\ ~(IsSome(cgroup_base_path) /\ IsSome(complete_cgroup_path))
    /\ wait_seconds \in {None} \cup { Some(w) : w \in -1..MaxWait }

InitRun ==
    /\ pc = "start"
    /\ listed = FALSE
    /\ pods = << >>
    /\ cur = 0
    /\ initial_stats = None
    /\ final_stats = None
    /\ pod_results = << >>
    /\ failures = << >>
    /\ result = None
    /\ exit_code = None
    /\ log = << >>
    /\ raw_text = << >>
    /\ permuted = << >>
    /\ parsed = None

\* The script stops at the first pod that fails.
Init ==
    /\ InitConfig
    /\ failurePolicy = "fail-fast"
    /\ InitRun

\* ----------------------------------------------------------------- actions
\* Lines 228-252: the required parameters.
ValidateConfig ==
    /\ pc = "start"
    /\ IF ~IsSome(namespace)
       THEN Return(ErrorReport("Namespace is required", 0, "Config"))
       ELSE IF ~IsSome(container_name)
       THEN Return(ErrorReport("Container name is required", 0, "Config"))
       ELSE IF ~IsSome(label_selector)
       THEN Return(ErrorReport("Label selector is required", 0, "Config"))
       ELSE /\ pc' = "list"
            /\ UNCHANGED << result, exit_code >>
    /\ UNCHANGED << parser, config, listed, pods, cur, initial_stats, final_stats,
                    pod_results, failures, log >>

\* The empty answer reported as a failure of the run.
NoPodsReport_Error ==
    ErrorReport("No pods found matching the criteria", 0, "Discovery")

\* Lines 268-274: the report when no pod matches.
NoPodsReport ==
    SuccessReport("No pods found matching the criteria", << >>)

\* Lines 263-276 and 343-348: the client, the list call, the empty answer.
ListPods ==
    /\ pc = "list"
    /\ \/ /\ Return(ErrorReport("Failed to analyze CPU throttling", 0, "Discovery"))
          /\ UNCHANGED << listed, pods >>
       \/ \E items \in Listings :
            /\ listed' = TRUE
            /\ pods' = items
            /\ IF items = << >>
               THEN Return(NoPodsReport)
               ELSE /\ pc' = "loop"
                    /\ UNCHANGED << result, exit_code >>
    /\ UNCHANGED << parser, config, cur, initial_stats, final_stats, pod_results,
                    failures, log >>

\* Line 278 and lines 336-341: the next pod, or the report when none is left.
NextPod ==
    /\ pc = "loop"
    /\ IF cur < Len(pods)
       THEN /\ cur' = cur + 1
            /\ pc' = "snap1"
            /\ UNCHANGED << result, exit_code >>
       ELSE /\ cur' = cur
            /\ Return(SuccessReport("CPU throttling analysis completed",
                                    pod_results))
    /\ UNCHANGED << parser, config, listed, pods, initial_stats, final_stats,
                    pod_results, failures, log >>

\* What a get_container_cpu_stats call on the pod of the loop adds to the log.
Snapshot(resp, r) ==
    << Event(pods[cur], "snapshot", 0, {}, Absent(resp)) >>
    \o (CASE r.ls = "listed" -> << Event(pods[cur], "ls", 0, r.files, FALSE) >>
          [] r.ls = "failed" -> << Event(pods[cur], "ls-failed", 0, {}, FALSE) >>
          [] OTHER -> << >>)

\* The loop body raised: the exception, and the except clause next.
Fail(kind, stage) ==
    /\ failures' = Append(failures,
                          [pod |-> pods[cur], kind |-> kind, stage |-> stage])
    /\ pc' = "failed"

\* Lines 280-281 (and 289 without a wait): the first snapshot.  With a wait,
\* final_stats still holds the previous pod's value, which nothing reads
\* before line 286 replaces it: it is None here.
InitialSnapshot ==
    /\ pc = "snap1"
    /\ \E resp \in Responses :
         LET r == GetContainerCpuStats(resp, cgroup_base_path,
                                       complete_cgroup_path)
         IN  /\ log' = log \o Snapshot(resp, r)
             /\ IF r.ok
                THEN /\ initial_stats' = Some(r.stats)
                     /\ final_stats' = IF Truthy(wait_seconds)
                                       THEN None ELSE Some(r.stats)
                     /\ pc' = IF Truthy(wait_seconds) THEN "wait" ELSE "compute"
                     /\ failures' = failures
                ELSE /\ Fail(r.err, "snap1")
                     /\ UNCHANGED << initial_stats, final_stats >>
    /\ UNCHANGED << parser, config, listed, pods, cur, pod_results, result, exit_code >>

\* Lines 283-285: time.sleep(wait_seconds), which raises on a negative value.
Wait ==
    /\ pc = "wait"
    /\ IF Get(wait_seconds) < 0
       THEN /\ Fail("ValueError", "wait")
            /\ log' = log
       ELSE /\ log' = Append(log, Event(pods[cur], "wait", Get(wait_seconds), {}, FALSE))
            /\ pc' = "snap2"
            /\ failures' = failures
    /\ UNCHANGED << parser, config, listed, pods, cur, initial_stats, final_stats,
                    pod_results, result, exit_code >>

\* The second snapshot falling back on the first one when it fails.
FinalSnapshot_Fallback ==
    /\ pc = "snap2"
    /\ \E resp \in Responses :
         LET r == GetContainerCpuStats(resp, cgroup_base_path,
                                       complete_cgroup_path)
         IN  /\ log' = log \o Snapshot(resp, r)
             /\ pc' = "compute"
             /\ IF r.ok
                THEN /\ final_stats' = Some(r.stats)
                     /\ failures' = failures
                ELSE /\ final_stats' = initial_stats
                     /\ failures' = Append(failures,
                                       [pod |-> pods[cur], kind |-> r.err,
                                        stage |-> "snap2"])
    /\ UNCHANGED << parser, config, listed, pods, cur, initial_stats, pod_results,
                    result, exit_code >>

\* Lines 286-287: the second snapshot.
FinalSnapshot ==
    /\ pc = "snap2"
    /\ \E resp \in Responses :
         LET r == GetContainerCpuStats(resp, cgroup_base_path,
                                       complete_cgroup_path)
         IN  /\ log' = log \o Snapshot(resp, r)
             /\ IF r.ok
                THEN /\ final_stats' = Some(r.stats)
                     /\ pc' = "compute"
                     /\ failures' = failures
                ELSE /\ Fail(r.err, "snap2")
                     /\ final_stats' = final_stats
    /\ UNCHANGED << parser, config, listed, pods, cur, initial_stats, pod_results,
                    result, exit_code >>

\* The result put at the head of the list.
AddResult_Prepend(results, pod_result) == << pod_result >> \o results

\* Line 324: pod_results.append(pod_result)
AddResult(results, pod_result) == Append(results, pod_result)

\* Lines 291-327: the percentage and the pod's result.
ComputeResult ==
    /\ pc = "compute"
    /\ LET c == Compute(pods[cur], wait_seconds,
                        Get(initial_stats), Get(final_stats))
       IN  IF c.ok
           THEN /\ pod_results' = AddResult(pod_results, c.res)
                /\ pc' = "loop"
                /\ failures' = failures
           ELSE /\ Fail("ZeroDivisionError", "compute")
                /\ pod_results' = pod_results
    /\ UNCHANGED << parser, config, listed, pods, cur, initial_stats, final_stats,
                    result, exit_code, log >>

\* The except clause swallowing the exception and going on with the loop.
TargetFailed_Continue ==
    /\ pc = "failed"
    /\ failurePolicy = "fail-fast"
    /\ pc' = "loop"
    /\ UNCHANGED << parser, config, listed, pods, cur, initial_stats, final_stats,
                    pod_results, failures, result, exit_code, log >>

\* Lines 329-334: the except clause of the loop body.
TargetFailed ==
    /\ pc = "failed"
    /\ failurePolicy = "fail-fast"
    /\ Return(ErrorReport("Failed to get CPU stats for pod",
                          pods[cur], failures[Len(failures)].kind))
    /\ UNCHANGED << parser, config, listed, pods, cur, initial_stats, final_stats,
                    pod_results, failures, log >>

\* The skip-and-zero policy: the failing pod gets a zero-valued result
\* tagged as holding no data, and the loop goes on.
ZeroResult(pod_name) ==
    [pod_name |-> pod_name,
     throttling_percentage |-> Zero,
     throttled_rate |-> Zero,
     nr_periods |-> 0,
     nr_throttled |-> 0,
     cgroup_path |-> "unknown",
     tag |-> "no-data"]

SkipAndZero ==
    /\ pc = "failed"
    /\ failurePolicy = "skip-and-zero"
    /\ pod_results' = Append(pod_results, ZeroResult(pods[cur]))
    /\ pc' = "loop"
    /\ UNCHANGED << parser, config, listed, pods, cur, initial_stats, final_stats,
                    failures, result, exit_code, log >>

Next ==
    \/ ValidateConfig
    \/ ListPods
    \/ NextPod
    \/ InitialSnapshot
    \/ Wait
    \/ FinalSnapshot
    \/ ComputeResult
    \/ TargetFailed

Spec == Init /\ [][Next]_vars

\* The run with the partial-failure policy the caller selects.
InitPolicy ==
    /\ InitConfig
    /\ failurePolicy \in {"fail-fast", "skip-and-zero"}
    /\ InitRun

NextPolicy == Next \/ SkipAndZero

SpecPolicy == InitPolicy /\ [][NextPolicy]_vars

\* ------------------------------------------------- parsing, line by line
\* The lines a cpu.stat file under study is made of: counters, one of them
\* with two values and in the "key:value" form, a value that is no
\* integer, a key the parser does not know, a line with no separator.
StatLines ==
    { NumLine("nr_periods", " ", 1),
      NumLine("nr_periods", " ", 2),
      NumLine("nr_periods", ":", 2),
      NumLine("nr_throttled", " ", 1),
      NumLine("throttled_usec", " ", 1000),
      TxtLine("nr_throttled", " ", "abc"),
      NumLine("usage_usec", " ", 7),
      TxtLine("nr_bursts", "", "") }

RawTexts == UNION { [1..n -> StatLines] : n \in 0..MaxLines }

\* get_cpu_stats (lines 123-209) on a container whose /sys/fs/cgroup/cpu.stat
\* reads `content`: the probe's sentinel line first, then the file.
ParseText(content) ==
    GetCpuStats(Container("shell", {V2Path}, content, FALSE), None, None)

InitParse ==
    /\ pc = "parse"
    /\ namespace = Some("ns")
    /\ container_name = Some("app")
    /\ label_selector = Some("app=web")
    /\ cgroup_base_path = None
    /\ complete_cgroup_path = None
    /\ wait_seconds = None
    /\ failurePolicy = "fail-fast"
    /\ listed = FALSE
    /\ pods = << >>
    /\ cur = 0
    /\ initial_stats = None
    /\ final_stats = None
    /\ pod_results = << >>
    /\ failures = << >>
    /\ result = None
    /\ exit_code = None
    /\ log = << >>
    /\ raw_text \in RawTexts
    /\ permuted = raw_text
    /\ parsed = None

run == << namespace, container_name, label_selector, cgroup_base_path,
          complete_cgroup_path, wait_seconds, failurePolicy, listed, pods,
          cur, initial_stats, final_stats, pod_results, failures, result,
          exit_code, log >>

\* Two neighbouring lines of the file change places.
SwapLines ==
    /\ pc = "parse"
    /\ \E i \in 1..(Len(permuted) - 1) :
         permuted' = [permuted EXCEPT ![i] = permuted[i + 1],
                                      ![i + 1] = permuted[i]]
    /\ UNCHANGED << pc, run, raw_text, parsed >>

\* The file is parsed as it was and as it is now.
ParseBoth ==
    /\ pc = "parse"
    /\ parsed' = Some([orig |-> ParseText(raw_text),
                       perm |-> ParseText(permuted)])
    /\ pc' = "parsed"
    /\ UNCHANGED << run, raw_text, permuted >>

NextParse == SwapLines \/ ParseBoth

SpecParse == InitParse /\ [][NextParse]_vars

\* ------------------------------------------------------------------ claims
PodIndex(name) == CHOOSE k \in 1..Len(pods) : pods[k] = name
EventsOf(name) == SelectSeq(log, LAMBDA e : e.pod = name)
Kinds(q) == [k \in 1..Len(q) |-> q[k].ev]
IsNoData(r) == "tag" \in DOMAIN r
HasDeltas(r) == "periods_delta" \in DOMAIN r
Differential == Truthy(wait_seconds)

\* C1: under the fail-fast policy the first pod that fails ends the run:
\* the report is an error naming that pod, the process exits with status 1,
\* no pod after it in the listing was sampled, listed or waited for, and no
\* result was added for it or a later pod.
C1_FailFastStopsAtFirstFailure ==
    (failurePolicy = "fail-fast" /\ failures # << >>) =>
        LET f == failures[1]
            k == PodIndex(f.pod)
        IN  /\ Len(failures) = 1
            /\ pc \in {"failed", "exit"}
            /\ pc = "exit" =>
                  /\ Get(result).status = "error"
                  /\ Get(result).pod = f.pod
                  /\ Get(result).kind = f.kind
                  /\ exit_code = Some(1)
            /\ \A j \in 1..Len(log) : PodIndex(log[j].pod) <= k
            /\ Len(pod_results) = k - 1
            /\ \A j \in 1..Len(pod_results) :
                  PodIndex(pod_results[j].pod_name) < k

\* C1's case: the first of two pods had no stats file, and the run is over.
C1_Witness ==
    /\ pc = "exit"
    /\ Len(pods) = 2
    /\ failures # << >>
    /\ failures[1].kind = "NotFound"
    /\ failures[1].pod = pods[1]

Measured == pc = "loop" /\ cur >= 1 /\ Len(pod_results) >= 1
LastResult == pod_results[Len(pod_results)]
\* The periods and the throttled periods the percentage is taken of: the
\* deltas of the two snapshots with a wait, the counters of the one without.
PeriodsUsed ==
    IF Differential
    THEN Get(final_stats).nr_periods - Get(initial_stats).nr_periods
    ELSE Get(initial_stats).nr_periods
ThrottledUsed ==
    IF Differential
    THEN Get(final_stats).nr_throttled - Get(initial_stats).nr_throttled
    ELSE Get(initial_stats).nr_throttled
Regressed ==
    \/ Get(final_stats).nr_periods < Get(initial_stats).nr_periods
    \/ Get(final_stats).nr_throttled < Get(initial_stats).nr_throttled
    \/ Get(final_stats).throttled_time < Get(initial_stats).throttled_time

\* C3: with a wait, two snapshots of which a counter went backward give
\* the pod no result: no percentage is reported for it.
C3_RegressionIsError ==
    ~(Measured /\ Differential /\ ~IsNoData(LastResult) /\ Regressed)

\* C4: zero periods (the delta with a wait, the counter without) give the
\* pod a result whose percentage is 0; nothing is divided by zero and the
\* computation never fails.
C4_ZeroPeriodsIsZeroPercent ==
    /\ \A j \in 1..Len(failures) :
          failures[j].kind # "ZeroDivisionError" /\ failures[j].stage # "compute"
    /\ (Measured /\ PeriodsUsed = 0) =>
          /\ LastResult.pod_name = pods[cur]
          /\ ~IsNoData(LastResult)
          /\ LastResult.throttling_percentage.n = 0

\* C4's case: with a wait, a pod whose periods stood still at a value
\* above zero while its throttled count moved has its result.
C4_Witness ==
    /\ Measured
    /\ Differential
    /\ PeriodsUsed = 0
    /\ Get(initial_stats).nr_periods > 0
    /\ ThrottledUsed > 0

\* C5: with periods above zero the percentage is throttled / periods * 100,
\* unclamped: above 100 when throttled exceeds periods.
C5_PercentageIsExactRatio ==
    (Measured /\ PeriodsUsed > 0) =>
        LET pct == LastResult.throttling_percentage
        IN  /\ pct.d > 0
            /\ pct.n * PeriodsUsed = ThrottledUsed * 100 * pct.d
            /\ ThrottledUsed > PeriodsUsed => pct.n > 100 * pct.d
            /\ LastResult.throttled_rate = pct

\* C5's case: with a wait, more throttled periods than periods between the
\* two snapshots.
C5_Witness ==
    /\ Measured
    /\ Differential
    /\ PeriodsUsed > 0
    /\ ThrottledUsed > PeriodsUsed

\* C6: when the list call returns no pod the run is over at once with a
\* success report holding no result and a message, no snapshot, listing or
\* sleep was made, and the process exits with status 0.
C6_NoPodsIsSuccess ==
    (listed /\ pods = << >>) =>
        /\ pc = "exit"
        /\ Get(result).status = "success"
        /\ Get(result).pods = << >>
        /\ Get(result).message # ""
        /\ log = << >>
        /\ exit_code = Some(0)

\* C6's case: the list call returned no pod.
C6_Witness == listed /\ pods = << >> /\ pc = "exit"

\* C7: pods are processed one at a time in the order of the listing: the
\* log never returns to an earlier pod, a pod is first sampled only when
\* every pod before it has its result, the k-th result is the k-th pod's,
\* and a success report holds exactly one result for every pod.
C7_SequentialInDiscoveryOrder ==
    /\ \A a, b \in 1..Len(log) :
          a < b => PodIndex(log[a].pod) <= PodIndex(log[b].pod)
    /\ \A j \in 1..Len(log) :
          /\ PodIndex(log[j].pod) <= cur
          /\ Len(pod_results) >= PodIndex(log[j].pod) - 1
    /\ Len(pod_results) <= Len(pods)
    /\ \A k \in 1..Len(pod_results) : pod_results[k].pod_name = pods[k]
    /\ (pc = "exit" /\ Get(result).status = "success") =>
          /\ Len(Get(result).pods) = Len(pods)
          /\ \A k \in 1..Len(pods) : Get(result).pods[k].pod_name = pods[k]

\* C7's case: two pods listed against the order of their names, both
\* measured, the run over.
C7_Witness ==
    /\ pc = "exit"
    /\ pods = << 2, 1 >>
    /\ Get(result).status = "success"
    /\ Len(Get(result).pods) = 2

\* C8: a pod's result comes of one snapshot and no sleep, and holds that
\* snapshot's counters and no delta field, when the wait is absent or zero;
\* of a snapshot, one sleep of the wait's length and a second snapshot, in
\* that order, and holds the delta fields, when the wait is positive.
C8_SnapshotsPerMode ==
    Measured =>
        LET ev == EventsOf(pods[cur])
            r == LastResult
        IN  /\ (~IsSome(wait_seconds) \/ Get(wait_seconds) = 0) =>
                  /\ Kinds(ev) = << "snapshot" >>
                  /\ ~HasDeltas(r)
                  /\ r.nr_periods = Get(initial_stats).nr_periods
                  /\ r.nr_throttled = Get(initial_stats).nr_throttled
                  /\ r.nr_periods > 0 =>
                        r.throttling_percentage.n * r.nr_periods
                          = r.nr_throttled * 100 * r.throttling_percentage.d
            /\ (IsSome(wait_seconds) /\ Get(wait_seconds) > 0) =>
                  /\ Kinds(ev) = << "snapshot", "wait", "snapshot" >>
                  /\ ev[2].secs = Get(wait_seconds)
                  /\ HasDeltas(r)
                  /\ r.periods_delta = Get(final_stats).nr_periods
                                         - Get(initial_stats).nr_periods
                  /\ r.throttled_delta = Get(final_stats).nr_throttled
                                           - Get(initial_stats).nr_throttled

\* C8's case: a positive wait, and a pod measured.
C8_Witness ==
    /\ Measured
    /\ IsSome(wait_seconds)
    /\ Get(wait_seconds) > 0
    /\ Len(EventsOf(pods[cur])) = 3

\* C9: when the second snapshot of a pod fails, the pod gets no result, the
\* snapshot is not taken again, and the run ends with that failure.
C9_SecondSnapshotFailureIsFailure ==
    \A j \in 1..Len(failures) :
        failures[j].stage = "snap2" =>
            LET p == failures[j].pod
            IN  /\ \A k \in 1..Len(pod_results) : pod_results[k].pod_name # p
                /\ Len(SelectSeq(EventsOf(p), LAMBDA e : e.ev = "snapshot")) = 2
                /\ pc \in {"failed", "exit"}
                /\ pc = "exit" =>
                      /\ Get(result).status = "error"
                      /\ Get(result).pod = p
                      /\ Get(result).kind = failures[j].kind

\* C9's case: the second snapshot read a value that is no integer, and the
\* run is over.
C9_Witness ==
    /\ pc = "exit"
    /\ failures # << >>
    /\ failures[1].stage = "snap2"
    /\ failures[1].kind = "InvalidValue"

\* C10: the file read is one of the locations the path options name (the
\* first that exists), and not-found is reported only when none of them
\* exists.
C10_LocatorFollowsHint ==
    LET wanted == Range(Candidates(cgroup_base_path, complete_cgroup_path))
    IN  /\ \A k \in 1..Len(pod_results) :
              ~IsNoData(pod_results[k]) => pod_results[k].cgroup_path \in wanted
        /\ \A j \in 1..Len(log) :
              log[j].ev = "ls" => log[j].files \cap wanted = {}

\* The counters of a parse, or that it failed.
Counters(r) ==
    IF r.ok
    THEN << "ok", r.stats.nr_periods, r.stats.nr_throttled, r.stats.throttled_time >>
    ELSE << "error", 0, 0, 0 >>

Recognized == {"nr_periods", "nr_throttled", "throttled_usec"}

\* No recognized key stands on two lines of the text with two different
\* integer values.
NoConflict(text) ==
    \A i, j \in 1..Len(text) :
        ( /\ text[i].key = text[j].key
          /\ text[i].key \in Recognized
          /\ text[i].sep # "" /\ text[j].sep # ""
          /\ IsSome(text[i].num) /\ IsSome(text[j].num) )
        => text[i].num = text[j].num

\* C11 as stated: whatever the text, its lines in another order parse to
\* the same counters, or to an error both times.
C11_ParseOrderIndependent ==
    IsSome(parsed) => Counters(Get(parsed).orig) = Counters(Get(parsed).perm)

\* C11, amended: a text in which no recognized key stands on two lines with
\* two different integer values parses, with its lines in any other order,
\* to the same counters, or to an error both times.
C11_ParseOrderIndependentNoConflict ==
    (IsSome(parsed) /\ NoConflict(raw_text)) =>
        Counters(Get(parsed).orig) = Counters(Get(parsed).perm)

\* C11's case: three lines, a counter among them on two lines with one
\* value and a key the parser does not know, parsed in another order.
C11_Witness ==
    /\ IsSome(parsed)
    /\ NoConflict(raw_text)
    /\ Len(raw_text) = 3
    /\ permuted # raw_text
    /\ Get(parsed).orig.ok
    /\ Get(parsed).orig.stats.nr_periods = 2
    /\ \E i, j \in 1..3 :
         /\ i # j
         /\ raw_text[i].key = "nr_periods"
         /\ raw_text[j].key = "nr_periods"
    /\ \E i \in 1..3 : raw_text[i].key = "usage_usec"

====
